---------------------------- MODULE Spec2Model ----------------------------
(***************************************************************************)
(* Model of the document reader: the speech-synchronisation hook           *)
(* (src/src/hooks/useSpeechSynthesis.ts) with the part of the platform     *)
(* speech engine (window.speechSynthesis) it talks to, the reading         *)
(* highlight of the document viewer                                        *)
(* (src/src/components/AdvancedDocumentViewer.tsx), and the conversion     *)
(* jobs of the file converter (FileConverter, src/utils/fileConverter.ts). *)
(*                                                                         *)
(* The hook's React state is one variable per useState/useRef cell.  The   *)
(* platform is modelled after the W3C Web Speech API: a queue of           *)
(* utterances, a global paused flag, and events that the engine emits      *)
(* into the browser's task queue (inflight) and that are delivered to the  *)
(* utterance's handlers later, in FIFO order, interleaved with the user's  *)
(* commands.                                                               *)
(***************************************************************************)
EXTENDS Integers, Sequences, FiniteSets, TLC

VARIABLES
    hasSpeech,         \* platform: 'speechSynthesis' in window
    mounted,           \* the mount effect (useEffect, []) has run
    isSupported,       \* useState(false)
    isInitialized,     \* useState(false)
    isPlaying,         \* useState(false)
    isPaused,          \* useState(false)
    currentUtterance,  \* useState(null): id of the stored utterance, or Null
    currentWordIndex,  \* useState(0)
    currentText,       \* useState('')
    utteranceRef,      \* useRef(null)
    isPlayingRef,      \* useRef(false)
    currentReadingText, \* viewer: useState('')
    readingHighlight,  \* viewer: useState(null), or [start, end]
    selectedText,      \* viewer: useState(''), with textSelectionRef
    currentPage,       \* viewer: useState(1)
    contentLength,     \* viewer: docFile.content.length, of a text document
    viewMode,          \* viewer: useState('single')
    searchResults,     \* viewer: useState([]), the page of each match
    currentSearchIndex, \* viewer: useState(0)
    music,             \* player: useState, tracks, currentTrack, isShuffled
    renderedMusic,     \* player: music as the handlers of the last render see it
    audioElements,     \* player: URLs of the Audio elements still loading
    audioUrlCount,     \* platform: object URLs created by addTracks
    audioRevoked,      \* platform: track URLs passed to URL.revokeObjectURL
    playerStep,        \* history: the last step of the player
    jobs,              \* converter: useState([]), the conversion jobs
    runs,              \* converter: conversions started, by job id
    objectUrls,        \* platform: object URLs created so far
    revoked,           \* platform: the calls of URL.revokeObjectURL, in order
    renderedJobs,      \* converter: jobs as the handlers of the last render see it
    jobStep,           \* history: the last step of the converter
    utterances,        \* utterance objects created by speak(), by id
    synthQueue,        \* platform: utterances held by window.speechSynthesis
    synthPaused,       \* platform: window.speechSynthesis.paused
    inflight,          \* platform: events emitted, not yet delivered (FIFO)
    stopped,           \* history: stop() ran and no speak() succeeded since
    last               \* history: the last step, with the hook state before it

vars == <<hasSpeech, mounted, isSupported, isInitialized, isPlaying, isPaused,
          currentUtterance, currentWordIndex, currentText, utteranceRef,
          isPlayingRef, currentReadingText, readingHighlight, selectedText,
          currentPage, contentLength, viewMode, searchResults,
          currentSearchIndex, music, renderedMusic, audioElements,
          audioUrlCount, audioRevoked, playerStep,
          jobs, runs, objectUrls, revoked, renderedJobs, jobStep,
          utterances, synthQueue, synthPaused, inflight, stopped, last>>

\* the hook's cells, and the two viewer cells that the viewer's
\* reading-progress effect recomputes from them after every change
hookVars == <<isPlaying, isPaused, currentUtterance, currentWordIndex,
              currentText, utteranceRef, isPlayingRef,
              currentReadingText, readingHighlight>>

\* state of the application outside the hook and its effect
converterVars == <<jobs, runs, objectUrls, revoked, renderedJobs, jobStep>>

pagerVars == <<currentPage, contentLength, viewMode, searchResults,
               currentSearchIndex>>

playerVars == <<music, renderedMusic, audioElements, audioUrlCount,
                audioRevoked, playerStep>>

appVars == <<selectedText, converterVars, pagerVars, playerVars>>

platformVars == <<synthQueue, synthPaused, inflight>>

---------------------------------------------------------------------------
(* Bounds *)

\* speak() calls that pass the guard, in one behaviour
MaxSpeak == 2

\* events the engine has emitted and the event loop has not yet delivered
MaxInflight == 2

\* longest text of the word-tracker specification
MaxLen == 5

\* files dropped on the converter, in one behaviour
MaxJobs == 1

\* spine items of a dropped EPUB
MaxItems == 3

\* the audio files added to the music player
MaxTracks == 2

---------------------------------------------------------------------------
(* Values *)

Null == 0

Chars == {"a", " ", "\n"}

Whitespace == {" ", "\n"}

\* texts handed to speak() in the hook specification: '', 'a', 'a b'
SpokenTexts == {<<>>, <<"a">>, <<"a", " ", "b">>}

\* every text of at most n characters
RECURSIVE TextsUpTo(_)
TextsUpTo(n) ==
    IF n = 0 THEN {<<>>}
    ELSE LET shorter == TextsUpTo(n - 1)
         IN  shorter \cup {Append(t, c) : t \in {s \in shorter : Len(s) = n - 1}, c \in Chars}

\* rate, pitch and volume are counted in tenths: 10 stands for 1.0
RateMin == 1

RateMax == 100

PitchMin == 0

PitchMax == 20

VolumeMin == 0

VolumeMax == 10

\* the 1 of 'options.rate || 1', and of the default options of speak()
OptionDefault == 10

\* option values handed to speak(): below, at, inside and above the ranges
OptionValues == {-10, 0, 1, 5, 10, 15, 20, 100, 150}

SpeechOptions == [rate : OptionValues, pitch : OptionValues, volume : OptionValues]

\* speak(text) without options: { rate: 1, pitch: 1, volume: 1 }
DefaultOptions ==
    [rate |-> OptionDefault, pitch |-> OptionDefault, volume |-> OptionDefault]

\* error codes the engine reports for a failure of its own
EngineErrorKinds == {"synthesis-failed"}

BoundaryUnits == {"word", "sentence"}

Event(u, name, unit, charIndex, error) ==
    [u |-> u, name |-> name, unit |-> unit, charIndex |-> charIndex, error |-> error]

NoEvent == Event(Null, "none", "", 0, "")

\* the hook's state cells, as one value
HookState ==
    [isPlaying |-> isPlaying, isPaused |-> isPaused,
     currentUtterance |-> currentUtterance,
     currentWordIndex |-> currentWordIndex, currentText |-> currentText,
     utteranceRef |-> utteranceRef, isPlayingRef |-> isPlayingRef]

\* currentText.split(' '): the pieces between single spaces; two adjacent
\* spaces, or a space at either end, yield an empty piece
RECURSIVE SplitSpaceScan(_, _, _, _)
SplitSpaceScan(text, i, acc, cur) ==
    IF i > Len(text) THEN Append(acc, cur)
    ELSE IF text[i] = " "
         THEN SplitSpaceScan(text, i + 1, Append(acc, cur), <<>>)
         ELSE SplitSpaceScan(text, i + 1, acc, Append(cur, text[i]))

SplitSpaces(text) == SplitSpaceScan(text, 1, <<>>, <<>>)

\* words.slice(0, n).join(' ').length
RECURSIVE JoinedLength(_, _)
JoinedLength(words, n) ==
    IF n = 0 THEN 0
    ELSE JoinedLength(words, n - 1) + Len(words[n]) + (IF n > 1 THEN 1 ELSE 0)

\* readingHighlight === null
NoHighlight == [start |-> -1, end |-> -1]

\* the viewer's reading-progress effect, run with the hook state s:
\* the values of currentReadingText and readingHighlight it leaves
ReadingProgress(s) ==
    IF s.isPlaying /\ s.currentText # <<>> /\ s.currentWordIndex >= 0
    THEN LET words == SplitSpaces(s.currentText)
             charStart == JoinedLength(words, s.currentWordIndex)
                          + (IF s.currentWordIndex > 0 THEN 1 ELSE 0)
         IN  IF s.currentWordIndex < Len(words)
             THEN [text |-> words[s.currentWordIndex + 1],
                   highlight |-> [start |-> charStart,
                                  end |-> charStart + Len(words[s.currentWordIndex + 1])]]
             ELSE [text |-> currentReadingText, highlight |-> readingHighlight]
    ELSE [text |-> <<>>, highlight |-> NoHighlight]

\* useEffect(..., [isPlaying, currentWordIndex, currentText])
ReadingEffect(s) ==
    IF <<s.isPlaying, s.currentWordIndex, s.currentText>>
           # <<isPlaying, currentWordIndex, currentText>>
    THEN /\ currentReadingText' = ReadingProgress(s).text
         /\ readingHighlight' = ReadingProgress(s).highlight
    ELSE UNCHANGED <<currentReadingText, readingHighlight>>

SetHook(s) ==
    /\ ReadingEffect(s)
    /\ isPlaying' = s.isPlaying
    /\ isPaused' = s.isPaused
    /\ currentUtterance' = s.currentUtterance
    /\ currentWordIndex' = s.currentWordIndex
    /\ currentText' = s.currentText
    /\ utteranceRef' = s.utteranceRef
    /\ isPlayingRef' = s.isPlayingRef

Step(op, ev) == [op |-> op, ev |-> ev, pre |-> HookState]

---------------------------------------------------------------------------
(* The word-position tracker: utterance.onboundary *)

\* text.split(/\s+/): the pieces between maximal runs of whitespace.  As in
\* JavaScript, leading or trailing whitespace yields an empty first or last
\* piece, and '' yields [''].
RECURSIVE SplitScan(_, _, _, _, _)
SplitScan(text, i, acc, cur, prevWs) ==
    IF i > Len(text) THEN Append(acc, cur)
    ELSE IF text[i] \in Whitespace
         THEN IF prevWs THEN SplitScan(text, i + 1, acc, cur, TRUE)
              ELSE SplitScan(text, i + 1, Append(acc, cur), <<>>, TRUE)
         ELSE SplitScan(text, i + 1, acc, Append(cur, text[i]), FALSE)

SplitWhitespace(text) == SplitScan(text, 1, <<>>, <<>>, FALSE)

\* the for loop of onboundary from iteration i (1-based here) on, with the
\* running charCount; wordIndex keeps its initial value 0 when no word
\* qualifies
RECURSIVE BoundaryScan(_, _, _, _)
BoundaryScan(words, i, charCount, charIndex) ==
    IF i > Len(words) THEN 0
    ELSE IF charCount + Len(words[i]) >= charIndex THEN i - 1
         ELSE BoundaryScan(words, i + 1, charCount + Len(words[i]) + 1, charIndex)

BoundaryWordIndex(text, charIndex) ==
    BoundaryScan(SplitWhitespace(text), 1, 0, charIndex)

onboundary(s, text, unit, charIndex) ==
    IF unit = "word"
    THEN [s EXCEPT !.currentWordIndex = BoundaryWordIndex(text, charIndex)]
    ELSE s

---------------------------------------------------------------------------
(* The other utterance handlers installed by speak() *)

onstart(s) ==
    [s EXCEPT !.isPlaying = TRUE, !.isPaused = FALSE, !.isPlayingRef = TRUE]

\* onend without setCurrentWordIndex(0)
onendKeepsCursor(s) ==
    [s EXCEPT !.isPlaying = FALSE, !.isPaused = FALSE,
              !.currentUtterance = Null,
              !.isPlayingRef = FALSE, !.utteranceRef = Null]

onend(s) ==
    [s EXCEPT !.isPlaying = FALSE, !.isPaused = FALSE,
              !.currentUtterance = Null, !.currentWordIndex = 0,
              !.isPlayingRef = FALSE, !.utteranceRef = Null]

\* onpause that also clears the cursor
onpauseClearsCursor(s) == [s EXCEPT !.isPaused = TRUE, !.currentWordIndex = 0]

onpause(s) == [s EXCEPT !.isPaused = TRUE]

onresume(s) == [s EXCEPT !.isPaused = FALSE]

\* onerror whose reset branch omits setCurrentWordIndex(0)
onerrorKeepsCursor(s, error) ==
    IF error = "interrupted" THEN s
    ELSE [s EXCEPT !.isPlaying = FALSE, !.isPaused = FALSE,
                   !.currentUtterance = Null,
                   !.isPlayingRef = FALSE, !.utteranceRef = Null]

onerror(s, error) ==
    IF error = "interrupted" THEN s
    ELSE [s EXCEPT !.isPlaying = FALSE, !.isPaused = FALSE,
                   !.currentUtterance = Null, !.currentWordIndex = 0,
                   !.isPlayingRef = FALSE, !.utteranceRef = Null]

\* the handler of utterance ev.u that the event ev invokes; the handlers
\* close over the text their speak() call was given
Handle(s, ev) ==
    CASE ev.name = "start"    -> onstart(s)
      [] ev.name = "boundary" -> onboundary(s, utterances[ev.u].text, ev.unit, ev.charIndex)
      [] ev.name = "pause"    -> onpause(s)
      [] ev.name = "resume"   -> onresume(s)
      [] ev.name = "end"      -> onend(s)
      [] ev.name = "error"    -> onerror(s, ev.error)

---------------------------------------------------------------------------
(* The platform engine, window.speechSynthesis *)

Room(evs) == Len(inflight) + Len(evs) <= MaxInflight

SynthSpeaking ==
    /\ synthQueue # <<>>
    /\ utterances[Head(synthQueue)].phase = "speaking"

\* cancel(): every utterance leaves the queue; the one being spoken gets an
\* 'interrupted' error, a queued one a 'canceled' error.  The paused state
\* of the synthesizer is not changed.
CancelEvents ==
    [i \in 1..Len(synthQueue) |->
        Event(synthQueue[i], "error", "", 0,
              IF utterances[synthQueue[i]].phase = "speaking"
              THEN "interrupted" ELSE "canceled")]

Cancelled(us) ==
    [u \in 1..Len(us) |->
        IF \E i \in 1..Len(synthQueue) : synthQueue[i] = u
        THEN [us[u] EXCEPT !.phase = "gone"] ELSE us[u]]

\* pause(): enters the paused state; an utterance being spoken gets 'pause'
PauseEvents ==
    IF ~synthPaused /\ SynthSpeaking
    THEN <<Event(Head(synthQueue), "pause", "", 0, "")>> ELSE <<>>

\* resume(): leaves the paused state; the paused utterance gets 'resume'
ResumeEvents ==
    IF synthPaused /\ SynthSpeaking
    THEN <<Event(Head(synthQueue), "resume", "", 0, "")>> ELSE <<>>

EngineStart ==
    /\ synthQueue # <<>>
    /\ ~synthPaused
    /\ utterances[Head(synthQueue)].phase = "queued"
    /\ Room(<<NoEvent>>)
    /\ utterances' = [utterances EXCEPT ![Head(synthQueue)].phase = "speaking"]
    /\ inflight' = Append(inflight, Event(Head(synthQueue), "start", "", 0, ""))
    /\ last' = Step("engine", NoEvent)
    /\ UNCHANGED <<appVars, hasSpeech, mounted, isSupported, isInitialized, hookVars,
                   synthQueue, synthPaused, stopped>>

EngineBoundary ==
    /\ SynthSpeaking
    /\ ~synthPaused
    /\ Room(<<NoEvent>>)
    /\ \E unit \in BoundaryUnits :
       \E charIndex \in 0..(Len(utterances[Head(synthQueue)].text) + 1) :
          inflight' = Append(inflight,
                             Event(Head(synthQueue), "boundary", unit, charIndex, ""))
    /\ last' = Step("engine", NoEvent)
    /\ UNCHANGED <<appVars, hasSpeech, mounted, isSupported, isInitialized, hookVars,
                   utterances, synthQueue, synthPaused, stopped>>

EngineEnd ==
    /\ SynthSpeaking
    /\ ~synthPaused
    /\ Room(<<NoEvent>>)
    /\ utterances' = [utterances EXCEPT ![Head(synthQueue)].phase = "gone"]
    /\ synthQueue' = Tail(synthQueue)
    /\ inflight' = Append(inflight, Event(Head(synthQueue), "end", "", 0, ""))
    /\ last' = Step("engine", NoEvent)
    /\ UNCHANGED <<appVars, hasSpeech, mounted, isSupported, isInitialized, hookVars,
                   synthPaused, stopped>>

EngineError ==
    /\ synthQueue # <<>>
    /\ ~synthPaused
    /\ Room(<<NoEvent>>)
    /\ utterances' = [utterances EXCEPT ![Head(synthQueue)].phase = "gone"]
    /\ synthQueue' = Tail(synthQueue)
    /\ \E error \in EngineErrorKinds :
          inflight' = Append(inflight, Event(Head(synthQueue), "error", "", 0, error))
    /\ last' = Step("engine", NoEvent)
    /\ UNCHANGED <<appVars, hasSpeech, mounted, isSupported, isInitialized, hookVars,
                   synthPaused, stopped>>

\* the event loop runs the handler of the oldest undelivered event
Deliver ==
    /\ inflight # <<>>
    /\ SetHook(Handle(HookState, Head(inflight)))
    /\ inflight' = Tail(inflight)
    /\ last' = Step("event", Head(inflight))
    /\ UNCHANGED <<appVars, hasSpeech, mounted, isSupported, isInitialized, utterances,
                   synthQueue, synthPaused, stopped>>


---------------------------------------------------------------------------
(* The hook: mount effect and the commands speak, pause, resume, stop *)

\* useEffect(..., []): capability detection and loadVoices(); voicesOk is
\* false when getVoices() throws
Mount ==
    /\ ~mounted
    /\ mounted' = TRUE
    /\ \E voicesOk \in BOOLEAN :
          IF hasSpeech
          THEN isSupported' = TRUE /\ isInitialized' = voicesOk
          ELSE UNCHANGED <<isSupported, isInitialized>>
    /\ last' = Step("mount", NoEvent)
    /\ UNCHANGED <<appVars, hasSpeech, hookVars, utterances, platformVars, stopped>>

\* window.speechSynthesis.onvoiceschanged = loadVoices
VoicesChanged ==
    /\ mounted
    /\ hasSpeech
    /\ \E voicesOk \in BOOLEAN : isInitialized' = (isInitialized \/ voicesOk)
    /\ last' = Step("voiceschanged", NoEvent)
    /\ UNCHANGED <<appVars, hasSpeech, mounted, isSupported, hookVars, utterances,
                   platformVars, stopped>>

Min2(a, b) == IF a <= b THEN a ELSE b

Max2(a, b) == IF a >= b THEN a ELSE b

\* x || 1: 0 is falsy and is replaced by the default
OrDefault(x) == IF x = 0 THEN OptionDefault ELSE x

\* the rate, pitch and volume speak() assigns to the new utterance
utteranceRate(options) == Max2(RateMin, Min2(RateMax, OrDefault(options.rate)))

utterancePitch(options) == Max2(PitchMin, Min2(PitchMax, OrDefault(options.pitch)))

utteranceVolume(options) == Max2(VolumeMin, Min2(VolumeMax, OrDefault(options.volume)))

\* new SpeechSynthesisUtterance(text) with its rate, pitch and volume set;
\* options records what speak() was given
Utterance(text, options) ==
    [text |-> text, phase |-> "queued", options |-> options,
     rate |-> utteranceRate(options), pitch |-> utterancePitch(options),
     volume |-> utteranceVolume(options)]

\* the guard of speak() without the test of the text
SpeakAcceptsAnyText(text) == isSupported /\ isInitialized

\* the guard of speak(); '' is falsy
SpeakAccepts(text) == isSupported /\ text # <<>> /\ isInitialized

\* speak() that marks the hook as playing itself instead of waiting for
\* the utterance's start event
speakStatePlaying(s, text, u) ==
    [s EXCEPT !.currentText = text, !.currentWordIndex = 0,
              !.isPlaying = TRUE, !.isPaused = FALSE,
              !.currentUtterance = u, !.utteranceRef = u]

\* the state cells after speak(text) created utterance u
speakState(s, text, u) ==
    [s EXCEPT !.currentText = text, !.currentWordIndex = 0,
              !.isPlaying = FALSE, !.isPaused = FALSE,
              !.currentUtterance = u, !.utteranceRef = u]

\* speak() without the cancel() before speak(utterance)
speakQueueNoCancel(u) == Append(synthQueue, u)

\* the platform queue after speak()'s cancel() and speak(utterance)
speakQueue(u) == Append(<<>>, u)

\* the undelivered events after speak()'s cancel()
speakInflight == inflight \o CancelEvents

Speak(text, options) ==
    /\ mounted
    /\ IF SpeakAccepts(text)
       THEN /\ Len(utterances) < MaxSpeak
            /\ Room(CancelEvents)
            /\ LET u == Len(utterances) + 1
               IN  /\ SetHook(speakState(HookState, text, u))
                   /\ utterances' = Append(Cancelled(utterances),
                                           Utterance(text, options))
                   /\ synthQueue' = speakQueue(u)
            /\ inflight' = speakInflight
            /\ stopped' = FALSE
            /\ last' = Step("speak", NoEvent)
            /\ UNCHANGED synthPaused
       ELSE /\ last' = Step("speak-rejected", NoEvent)
            /\ UNCHANGED <<hookVars, utterances, platformVars, stopped>>
    /\ UNCHANGED <<appVars, hasSpeech, mounted, isSupported, isInitialized>>

\* the test inside pause() without isPlaying
PauseAppliesUnlessPaused == ~isPaused

\* the test inside pause()
PauseApplies == isPlaying /\ ~isPaused

Pause ==
    /\ mounted
    /\ IF isSupported /\ PauseApplies
       THEN /\ Room(PauseEvents)
            /\ synthPaused' = TRUE
            /\ inflight' = inflight \o PauseEvents
            /\ SetHook([HookState EXCEPT !.isPaused = TRUE])
            /\ last' = Step("pause", NoEvent)
            /\ UNCHANGED synthQueue
       ELSE /\ last' = Step("pause-noop", NoEvent)
            /\ UNCHANGED <<hookVars, platformVars>>
    /\ UNCHANGED <<appVars, hasSpeech, mounted, isSupported, isInitialized, utterances,
                   stopped>>

Resume ==
    /\ mounted
    /\ IF isSupported /\ isPaused
       THEN /\ Room(ResumeEvents)
            /\ synthPaused' = FALSE
            /\ inflight' = inflight \o ResumeEvents
            /\ SetHook([HookState EXCEPT !.isPaused = FALSE])
            /\ last' = Step("resume", NoEvent)
            /\ UNCHANGED synthQueue
       ELSE /\ last' = Step("resume-noop", NoEvent)
            /\ UNCHANGED <<hookVars, platformVars>>
    /\ UNCHANGED <<appVars, hasSpeech, mounted, isSupported, isInitialized, utterances,
                   stopped>>

\* stop() without setIsPaused(false)
stopStateKeepsPaused(s) ==
    [s EXCEPT !.isPlaying = FALSE,
              !.currentUtterance = Null, !.currentWordIndex = 0,
              !.isPlayingRef = FALSE, !.utteranceRef = Null]

\* the state cells after stop()
stopState(s) ==
    [s EXCEPT !.isPlaying = FALSE, !.isPaused = FALSE,
              !.currentUtterance = Null, !.currentWordIndex = 0,
              !.isPlayingRef = FALSE, !.utteranceRef = Null]

Stop ==
    /\ mounted
    /\ IF isSupported
       THEN /\ Room(CancelEvents)
            /\ utterances' = Cancelled(utterances)
            /\ synthQueue' = <<>>
            /\ inflight' = inflight \o CancelEvents
            /\ SetHook(stopState(HookState))
            /\ stopped' = TRUE
            /\ last' = Step("stop", NoEvent)
            /\ UNCHANGED synthPaused
       ELSE /\ last' = Step("stop-noop", NoEvent)
            /\ UNCHANGED <<hookVars, utterances, platformVars, stopped>>
    /\ UNCHANGED <<appVars, hasSpeech, mounted, isSupported, isInitialized>>

---------------------------------------------------------------------------
(* The hook with its platform *)

\* the converter with no job
InitConverterIdle ==
    /\ jobs = <<>>
    /\ runs = <<>>
    /\ objectUrls = 0
    /\ revoked = <<>>
    /\ renderedJobs = <<>>
    /\ jobStep = [op |-> "init", id |-> 0]

InitSpeechIdle ==
    /\ hasSpeech = TRUE
    /\ mounted = FALSE
    /\ isSupported = FALSE
    /\ isInitialized = FALSE
    /\ isPlaying = FALSE
    /\ isPaused = FALSE
    /\ currentUtterance = Null
    /\ currentWordIndex = 0
    /\ currentText = <<>>
    /\ utteranceRef = Null
    /\ isPlayingRef = FALSE
    /\ currentReadingText = <<>>
    /\ readingHighlight = NoHighlight
    /\ selectedText = <<>>
    /\ utterances = <<>>
    /\ synthQueue = <<>>
    /\ synthPaused = FALSE
    /\ inflight = <<>>
    /\ stopped = FALSE
    /\ last = [op |-> "init", ev |-> NoEvent, pre |-> HookState]

\* the document every specification but the pager's shows
DocContent == <<"a", " ", "b">>

\* the viewer's page state after mount
InitPagerIdle ==
    /\ currentPage = 1
    /\ contentLength = Len(DocContent)
    /\ viewMode = "single"
    /\ searchResults = <<>>
    /\ currentSearchIndex = 0

NoTrack == 0

\* the music state of ProductivityProvider after mount; isPlaying,
\* currentTime, volume and repeatMode play no part in the track list
InitMusic == [tracks |-> <<>>, currentTrack |-> NoTrack, isShuffled |-> FALSE]

InitPlayerIdle ==
    /\ music = InitMusic
    /\ renderedMusic = InitMusic
    /\ audioElements = {}
    /\ audioUrlCount = 0
    /\ audioRevoked = <<>>
    /\ playerStep = [op |-> "init", id |-> 0, stale |-> FALSE]

Init ==
    /\ hasSpeech \in BOOLEAN
    /\ mounted = FALSE
    /\ isSupported = FALSE
    /\ isInitialized = FALSE
    /\ isPlaying = FALSE
    /\ isPaused = FALSE
    /\ currentUtterance = Null
    /\ currentWordIndex = 0
    /\ currentText = <<>>
    /\ utteranceRef = Null
    /\ isPlayingRef = FALSE
    /\ currentReadingText = <<>>
    /\ readingHighlight = NoHighlight
    /\ selectedText = <<>>
    /\ InitPagerIdle
    /\ InitPlayerIdle
    /\ jobs = <<>>
    /\ runs = <<>>
    /\ objectUrls = 0
    /\ revoked = <<>>
    /\ renderedJobs = <<>>
    /\ jobStep = [op |-> "init", id |-> 0]
    /\ utterances = <<>>
    /\ synthQueue = <<>>
    /\ synthPaused = FALSE
    /\ inflight = <<>>
    /\ stopped = FALSE
    /\ last = [op |-> "init", ev |-> NoEvent, pre |-> HookState]

Next ==
    \/ Mount
    \/ VoicesChanged
    \/ \E text \in SpokenTexts : Speak(text, DefaultOptions)
    \/ Pause
    \/ Resume
    \/ Stop
    \/ EngineStart
    \/ EngineBoundary
    \/ EngineEnd
    \/ EngineError
    \/ Deliver

Spec == Init /\ [][Next]_vars

---------------------------------------------------------------------------
(* The word tracker on every text: the hook while one utterance of an      *)
(* arbitrary text is being spoken, driven by boundary events alone         *)

InitTracker ==
    /\ hasSpeech = TRUE
    /\ mounted = TRUE
    /\ isSupported = TRUE
    /\ isInitialized = TRUE
    /\ isPlaying = TRUE
    /\ isPaused = FALSE
    /\ currentUtterance = 1
    /\ currentWordIndex = 0
    /\ currentText \in TextsUpTo(MaxLen) \ {<<>>}
    /\ utteranceRef = 1
    /\ isPlayingRef = TRUE
    /\ currentReadingText = SplitSpaces(currentText)[1]
    /\ readingHighlight = [start |-> 0, end |-> Len(SplitSpaces(currentText)[1])]
    /\ selectedText = <<>>
    /\ InitPagerIdle
    /\ InitPlayerIdle
    /\ jobs = <<>>
    /\ runs = <<>>
    /\ objectUrls = 0
    /\ revoked = <<>>
    /\ renderedJobs = <<>>
    /\ jobStep = [op |-> "init", id |-> 0]
    /\ utterances = <<[Utterance(currentText, DefaultOptions)
                          EXCEPT !.phase = "speaking"]>>
    /\ synthQueue = <<1>>
    /\ synthPaused = FALSE
    /\ inflight = <<>>
    /\ stopped = FALSE
    /\ last = [op |-> "init", ev |-> NoEvent, pre |-> HookState]

\* one boundary event at a time: emitted, then delivered
NextTracker ==
    \/ inflight = <<>> /\ EngineBoundary
    \/ Deliver

SpecTracker == InitTracker /\ [][NextTracker]_vars


---------------------------------------------------------------------------
(* The option clamps on every input: one speak() of 'a' with arbitrary     *)
(* options, on a platform with speech whose voices have loaded             *)

InitClamp ==
    /\ hasSpeech = TRUE
    /\ mounted = TRUE
    /\ isSupported = TRUE
    /\ isInitialized = TRUE
    /\ isPlaying = FALSE
    /\ isPaused = FALSE
    /\ currentUtterance = Null
    /\ currentWordIndex = 0
    /\ currentText = <<>>
    /\ utteranceRef = Null
    /\ isPlayingRef = FALSE
    /\ currentReadingText = <<>>
    /\ readingHighlight = NoHighlight
    /\ selectedText = <<>>
    /\ InitPagerIdle
    /\ InitPlayerIdle
    /\ jobs = <<>>
    /\ runs = <<>>
    /\ objectUrls = 0
    /\ revoked = <<>>
    /\ renderedJobs = <<>>
    /\ jobStep = [op |-> "init", id |-> 0]
    /\ utterances = <<>>
    /\ synthQueue = <<>>
    /\ synthPaused = FALSE
    /\ inflight = <<>>
    /\ stopped = FALSE
    /\ last = [op |-> "init", ev |-> NoEvent, pre |-> HookState]

NextClamp ==
    \/ utterances = <<>> /\ \E options \in SpeechOptions : Speak(<<"a">>, options)
    \/ EngineStart
    \/ EngineEnd
    \/ Deliver

SpecClamp == InitClamp /\ [][NextClamp]_vars

---------------------------------------------------------------------------
(* The document viewer around the hook: text selection, the play and stop  *)
(* buttons of the speech panel, and the text page it renders.  The         *)
(* document is a text document of a single page.                           *)

\* docFile.content
\* what the user can select on the page: nothing, or the word 'b'
Selections == {<<>>, <<"b">>}

\* characters of a page in single-page view
PageSize == 2000

\* seq.slice(from, to) for 0 <= from <= to
Slice(seq, from, to) == SubSeq(seq, from + 1, Min2(to, Len(seq)))

\* the slice of the document renderTextContent shows
DisplayedContent ==
    LET startIndex == (currentPage - 1) * PageSize
        endIndex == startIndex + PageSize
    IN  Slice(DocContent, startIndex, endIndex)

\* renderTextContent wraps content.slice(start, end) in the highlight span
HighlightApplied ==
    isPlaying /\ currentText # <<>> /\ readingHighlight # NoHighlight

HighlightedText ==
    Slice(DisplayedContent, readingHighlight.start, readingHighlight.end)

handleTextSelection(text) ==
    /\ mounted
    /\ selectedText' = text
    /\ last' = Step("select", NoEvent)
    /\ UNCHANGED <<converterVars, pagerVars, playerVars, hasSpeech, mounted,
                   isSupported, isInitialized, hookVars, utterances,
                   platformVars, stopped>>

handleSpeechPlay ==
    LET textToSpeak == IF selectedText # <<>> THEN selectedText ELSE DocContent
    IN  IF isPaused THEN Resume ELSE Speak(textToSpeak, DefaultOptions)

handleSpeechStop ==
    /\ Stop
    /\ currentReadingText' = <<>>
    /\ readingHighlight' = NoHighlight

InitViewer == Init /\ hasSpeech

NextViewer ==
    \/ Mount
    \/ VoicesChanged
    \/ \E text \in Selections : handleTextSelection(text)
    \/ handleSpeechPlay
    \/ handleSpeechStop
    \/ EngineStart
    \/ EngineBoundary
    \/ EngineEnd
    \/ EngineError
    \/ Deliver

SpecViewer == InitViewer /\ [][NextViewer]_vars

---------------------------------------------------------------------------
(* The viewer's pages, for a text document (docFile.type is not 'pdf'):   *)
(* the document is given by its length, a search by the offsets of its    *)
(* matches.                                                               *)

\* the lengths of the documents opened: empty, one character, one full
\* page, one character more, two pages and a character
DocLengths == {0, 1, PageSize, PageSize + 1, PageSize + PageSize + 1}

\* the offsets a search can match at: the first and last characters of the
\* first two pages, the first of the third
MatchOffsets == {0, PageSize - 1, PageSize, PageSize + PageSize - 1,
                 PageSize + PageSize}

\* Math.ceil(a / b) for a >= 0, b > 0
Ceil(a, b) == (a + b - 1) \div b

\* Math.ceil(docFile.content.length / 2000)
totalPages == Ceil(contentLength, PageSize)

\* everything the page handlers leave alone
pagerFrame == <<hasSpeech, mounted, isSupported, isInitialized, hookVars,
                selectedText, contentLength, playerVars, converterVars,
                utterances, platformVars, stopped, last>>

handlePageChange(page) ==
    currentPage' = Max2(1, Min2(page, totalPages))

Keys == {"ArrowUp", "ArrowDown", "ArrowLeft", "ArrowRight", "Home", "End",
         "Space", "ShiftSpace"}

\* the amount an arrow key or the space bar moves by
KeyDelta(key) ==
    CASE key \in {"ArrowUp", "ShiftSpace"} -> -1
      [] key \in {"ArrowDown", "Space"} -> 1
      [] key = "ArrowLeft" -> IF viewMode = "double" THEN -2 ELSE -1
      [] key = "ArrowRight" -> IF viewMode = "double" THEN 2 ELSE 1

\* handleKeyDown, for a key pressed outside an input field
handleKeyDown(key) ==
    /\ CASE key = "Home" -> currentPage' = 1
          [] key = "End" -> currentPage' = totalPages
          [] OTHER -> handlePageChange(currentPage + KeyDelta(key))
    /\ UNCHANGED <<viewMode, searchResults, currentSearchIndex, pagerFrame>>

\* the previous/next buttons and the page number field
PageButton(page) ==
    /\ handlePageChange(page)
    /\ UNCHANGED <<viewMode, searchResults, currentSearchIndex, pagerFrame>>

\* a click on the thumbnail of a page
scrollToPage(pageNumber) ==
    /\ pageNumber \in 1..totalPages
    /\ currentPage' = pageNumber
    /\ UNCHANGED <<viewMode, searchResults, currentSearchIndex, pagerFrame>>

setViewMode ==
    /\ viewMode' = IF viewMode = "single" THEN "double" ELSE "single"
    /\ UNCHANGED <<currentPage, searchResults, currentSearchIndex, pagerFrame>>

\* the searches: the sequences of increasing match offsets in the text; the
\* empty sequence is a query without a match
Searches ==
    {<<>>} \cup {<<o>> : o \in {m \in MatchOffsets : m < contentLength}}
           \cup {<<o1, o2>> : o1, o2 \in {m \in MatchOffsets : m < contentLength}}

\* the page handleSearch gives a match at offset index
MatchPage(index) == Ceil(index, PageSize)

\* handleSearch for a query that is not blank, with the matches regex.exec
\* finds
handleSearch(matches) ==
    /\ \A i \in 1..(Len(matches) - 1) : matches[i] < matches[i + 1]
    /\ searchResults' = [i \in 1..Len(matches) |-> MatchPage(matches[i])]
    /\ currentSearchIndex' = 0
    /\ currentPage' = IF matches # <<>> THEN MatchPage(matches[1]) ELSE currentPage
    /\ UNCHANGED <<viewMode, pagerFrame>>

\* handleSearch for a blank query
handleSearchBlank ==
    /\ searchResults' = <<>>
    /\ UNCHANGED <<currentPage, viewMode, currentSearchIndex, pagerFrame>>

navigateSearchResult(direction) ==
    /\ searchResults # <<>>
    /\ LET newIndex == IF direction = "next"
                        THEN (currentSearchIndex + 1) % Len(searchResults)
                        ELSE (currentSearchIndex - 1 + Len(searchResults))
                                 % Len(searchResults)
       IN  /\ currentSearchIndex' = newIndex
           /\ currentPage' = searchResults[newIndex + 1]
    /\ UNCHANGED <<viewMode, searchResults, pagerFrame>>

InitPager ==
    /\ InitSpeechIdle
    /\ InitPlayerIdle
    /\ InitConverterIdle
    /\ currentPage = 1
    /\ contentLength \in DocLengths
    /\ viewMode = "single"
    /\ searchResults = <<>>
    /\ currentSearchIndex = 0

NextPager ==
    \/ \E key \in Keys : handleKeyDown(key)
    \/ \E page \in {currentPage - 1, currentPage + 1} : PageButton(page)
    \/ \E pageNumber \in 1..totalPages : scrollToPage(pageNumber)
    \/ setViewMode
    \/ \E matches \in Searches : handleSearch(matches)
    \/ handleSearchBlank
    \/ \E direction \in {"next", "prev"} : navigateSearchResult(direction)

SpecPager == InitPager /\ [][NextPager]_vars

---------------------------------------------------------------------------
(* The music player: the music state of ProductivityProvider with the     *)
(* handlers of ProductivityContext.tsx and MusicPlayerModule.tsx.  A      *)
(* track is named by the number of its object URL; its id is created with *)
(* it in the loadedmetadata listener and never changes.  A handler reads  *)
(* `music` of the render that created it and passes an updater to         *)
(* setMusic, which React applies to the latest state.  React renders at   *)
(* the end of every click; after a loadedmetadata listener it renders     *)
(* later, and a click can come first.                                     *)

\* prev.tracks[i] for an index outside the list
Undefined == -1

Listed(tracks) == {tracks[i] : i \in 1..Len(tracks)}

\* tracks.findIndex(track => track.id === current?.id)
FindIndex(tracks, current) ==
    IF current \in Listed(tracks)
    THEN (CHOOSE i \in 1..Len(tracks) : tracks[i] = current) - 1
    ELSE -1

\* tracks[index]
At(tracks, index) ==
    IF index + 1 \in 1..Len(tracks) THEN tracks[index + 1] ELSE Undefined

PlayerStep(op, id) == [op |-> op, id |-> id, stale |-> renderedMusic # music]

playerFrame == <<hasSpeech, mounted, isSupported, isInitialized, hookVars,
                 selectedText, pagerVars, converterVars, utterances,
                 platformVars, stopped, last>>

\* addTracks for a FileList with count audio files: an object URL and an
\* Audio element for each
addTracks(count) ==
    /\ count >= 1
    /\ audioUrlCount + count <= MaxTracks
    /\ audioUrlCount' = audioUrlCount + count
    /\ audioElements' = audioElements \cup ((audioUrlCount + 1)..(audioUrlCount + count))
    /\ playerStep' = PlayerStep("add", 0)
    /\ UNCHANGED <<music, renderedMusic, audioRevoked, playerFrame>>

\* the loadedmetadata listener of an Audio element
loadedmetadata(url) ==
    /\ url \in audioElements
    /\ music' = [music EXCEPT
                    !.tracks = Append(@, url),
                    !.currentTrack = IF @ \in {NoTrack, Undefined} THEN url ELSE @]
    /\ audioElements' = audioElements \ {url}
    /\ playerStep' = PlayerStep("loaded", url)
    /\ UNCHANGED <<renderedMusic, audioUrlCount, audioRevoked, playerFrame>>

\* the error listener of an Audio element
audioError(url) ==
    /\ url \in audioElements
    /\ audioRevoked' = Append(audioRevoked, url)
    /\ audioElements' = audioElements \ {url}
    /\ playerStep' = PlayerStep("error", url)
    /\ UNCHANGED <<music, renderedMusic, audioUrlCount, playerFrame>>

\* React renders the provider after an update made by a listener
RenderPlayer ==
    /\ renderedMusic # music
    /\ renderedMusic' = music
    /\ playerStep' = PlayerStep("render", 0)
    /\ UNCHANGED <<music, audioElements, audioUrlCount, audioRevoked, playerFrame>>

\* selectTrack, by a click on the row of a rendered track
selectTrack(trackId) ==
    /\ trackId \in Listed(renderedMusic.tracks)
    /\ music' = [music EXCEPT !.currentTrack = trackId]
    /\ renderedMusic' = music'
    /\ playerStep' = PlayerStep("select", trackId)
    /\ UNCHANGED <<audioElements, audioUrlCount, audioRevoked, playerFrame>>

\* a removal that leaves the current track as it is
removedCurrentKept(prev, trackId, newTracks) == prev.currentTrack

\* the current track after a removal
removedCurrent(prev, trackId, newTracks) ==
    IF prev.currentTrack = trackId
    THEN IF Len(newTracks) > 0 THEN newTracks[1] ELSE NoTrack
    ELSE prev.currentTrack

\* removeTrack, by a click on the remove button of a rendered track
removeTrack(trackId) ==
    /\ trackId \in Listed(renderedMusic.tracks)
    /\ audioRevoked' = Append(audioRevoked, trackId)
    /\ LET newTracks == SelectSeq(music.tracks, LAMBDA t : t # trackId)
       IN  music' = [music EXCEPT
                        !.tracks = newTracks,
                        !.currentTrack = removedCurrent(music, trackId, newTracks)]
    /\ renderedMusic' = music'
    /\ playerStep' = PlayerStep("remove", trackId)
    /\ UNCHANGED <<audioElements, audioUrlCount, playerFrame>>

\* the indices skipToNext (step 1) and skipToPrevious (step -1) can compute
\* from the rendered state; Math.random() picks any of the other indices
SkipIndices(step) ==
    LET length == Len(renderedMusic.tracks)
        currentIndex == FindIndex(renderedMusic.tracks, renderedMusic.currentTrack)
        availableIndices == {i \in 0..(length - 1) : i # currentIndex}
    IN  IF renderedMusic.isShuffled
        THEN IF availableIndices = {} THEN {0} ELSE availableIndices
        ELSE {(currentIndex + step + length) % length}

\* skipToNext and skipToPrevious, up to their setMusic; the later
\* setMusic of the timer sets isPlaying only
skip(op, step) ==
    /\ renderedMusic.tracks # <<>>
    /\ \E index \in SkipIndices(step) :
          music' = [music EXCEPT !.currentTrack = At(music.tracks, index)]
    /\ renderedMusic' = music'
    /\ playerStep' = PlayerStep(op, 0)
    /\ UNCHANGED <<audioElements, audioUrlCount, audioRevoked, playerFrame>>

skipToNext == skip("next", 1)

skipToPrevious == skip("previous", -1)

toggleShuffle ==
    /\ music' = [music EXCEPT !.isShuffled = ~@]
    /\ renderedMusic' = music'
    /\ playerStep' = PlayerStep("shuffle", 0)
    /\ UNCHANGED <<audioElements, audioUrlCount, audioRevoked, playerFrame>>

InitPlayer ==
    /\ InitSpeechIdle
    /\ InitPagerIdle
    /\ InitConverterIdle
    /\ InitPlayerIdle

NextPlayer ==
    \/ \E count \in 1..MaxTracks : addTracks(count)
    \/ \E url \in 1..MaxTracks : loadedmetadata(url) \/ audioError(url)
    \/ RenderPlayer
    \/ \E trackId \in 1..MaxTracks : selectTrack(trackId) \/ removeTrack(trackId)
    \/ skipToNext
    \/ skipToPrevious
    \/ toggleShuffle

SpecPlayer == InitPlayer /\ [][NextPlayer]_vars

---------------------------------------------------------------------------
(* The file converter: the FileConverter component's job list and the     *)
(* conversions of src/utils/fileConverter.ts it runs.  Every setJobs call  *)
(* of a conversion is one step; the steps of different conversions and the *)
(* user's retry, remove and clear interleave.                              *)

Extensions == {"epub", "azw3", "txt"}

\* the files a user drops: an EPUB with 0..MaxItems spine items, an AZW3
\* file, a file of another type
Files ==
    [ext : {"epub"}, items : 0..MaxItems]
        \cup [ext : {"azw3", "txt"}, items : {0}]

\* Euclid's algorithm, for b > 0
RECURSIVE Gcd(_, _)
Gcd(a, b) == IF a % b = 0 THEN b ELSE Gcd(b, a % b)

\* a progress value is a fraction in lowest terms: the converters compute
\* 30 + (processedItems / totalItems) * 60
Fraction(a, b) == [num |-> a \div Gcd(a, b), den |-> b \div Gcd(a, b)]

Percent(n) == [num |-> n, den |-> 1]

AtMost(p, q) == p.num * q.den <= q.num * p.den

\* a progress computed from the items that remain instead of the items done
ItemProgressRemaining(base, span, k, n) ==
    Fraction(base * n + span * (n - k), n)

\* base + (k / n) * span
ItemProgress(base, span, k, n) ==
    IF k = 0 THEN Percent(base) ELSE Fraction(base * n + span * k, n)

NoUrl == 0

NoError == ""

\* a job that is created as 'processing'
NewJobProcessing(id, file) ==
    IF file.ext \in {"epub", "azw3"}
    THEN [id |-> id, inputFile |-> file, inputFormat |-> file.ext,
          status |-> "processing", progress |-> Percent(0),
          outputUrl |-> NoUrl, error |-> NoError]
    ELSE [id |-> id, inputFile |-> file, inputFormat |-> file.ext,
          status |-> "error", progress |-> Percent(0),
          outputUrl |-> NoUrl, error |-> "Unsupported file format"]

\* the job handleFilesDrop creates for a file; id stands for
\* Date.now().toString() + Math.random()...
NewJob(id, file) ==
    IF file.ext \in {"epub", "azw3"}
    THEN [id |-> id, inputFile |-> file, inputFormat |-> file.ext,
          status |-> "pending", progress |-> Percent(0),
          outputUrl |-> NoUrl, error |-> NoError]
    ELSE [id |-> id, inputFile |-> file, inputFormat |-> file.ext,
          status |-> "error", progress |-> Percent(0),
          outputUrl |-> NoUrl, error |-> "Unsupported file format"]

\* { ...j, fields }
Spread(j, fields) ==
    [k \in DOMAIN j |-> IF k \in DOMAIN fields THEN fields[k] ELSE j[k]]

\* a map that updates every job of the list
MapJobAll(id, fields) ==
    [i \in 1..Len(jobs) |-> Spread(jobs[i], fields)]

\* prev.map(j => j.id === id ? { ...j, fields } : j)
MapJob(id, fields) ==
    [i \in 1..Len(jobs) |->
        IF jobs[i].id = id THEN Spread(jobs[i], fields) ELSE jobs[i]]

SetProcessing == [status |-> "processing"]

\* a retry that leaves the error message in place
SetRetriedKeepsError == [status |-> "processing", progress |-> Percent(0)]

SetRetried == [status |-> "processing", progress |-> Percent(0), error |-> NoError]

\* what the handlers read of the jobs of a render: a handler is a closure of
\* the render that created it and sees that render's list, while the
\* updaters passed to setJobs see the latest list
Rendered(js) ==
    [i \in 1..Len(js) |->
        [id |-> js[i].id, inputFile |-> js[i].inputFile,
         status |-> js[i].status, outputUrl |-> js[i].outputUrl]]

HasJob(id) == \E i \in 1..Len(jobs) : jobs[i].id = id

JobOf(js, id) == js[CHOOSE i \in 1..Len(js) : js[i].id = id]

JobStep(op, id) == [op |-> op, id |-> id]

\* a call of convertFileEnhanced(job, onProgress): pc names the setJobs
\* call it makes next, file is job.inputFile, done counts the spine items
\* processed, url is the object URL it created; retried records that the
\* call was made by retryJob
RunAt(pc, file) ==
    [pc |-> pc, file |-> file, done |-> 0, url |-> NoUrl, retried |-> FALSE]

speechVars == <<hasSpeech, mounted, isSupported, isInitialized, hookVars,
                selectedText, pagerVars, playerVars, utterances, platformVars,
                stopped, last>>

\* the conversions that have not yet settled
Running == {id \in 1..Len(runs) : runs[id].pc # "none"}

\* handleFilesDrop for one file, up to the first setJobs
FileDrop(file) ==
    /\ Len(runs) < MaxJobs
    /\ LET id == Len(runs) + 1
       IN  /\ jobs' = Append(jobs, NewJob(id, file))
           /\ runs' = Append(runs, IF file.ext \in {"epub", "azw3"}
                                   THEN RunAt("dropped", file)
                                   ELSE RunAt("none", file))
           /\ jobStep' = JobStep("drop", id)
    /\ renderedJobs' = Rendered(jobs')
    /\ UNCHANGED <<objectUrls, revoked, speechVars>>

\* retryJob(job), up to the call of convertFileEnhanced; the button is
\* rendered for a job in status 'error' and passes that render's job
RetryJob(id) ==
    /\ HasJob(id)
    /\ JobOf(renderedJobs, id).status = "error"
    /\ jobs' = MapJob(id, SetRetried)
    /\ runs' = [runs EXCEPT ![id] = [RunAt("enhanced", JobOf(renderedJobs, id).inputFile)
                                         EXCEPT !.retried = TRUE]]
    /\ jobStep' = JobStep("retry", id)
    /\ renderedJobs' = Rendered(jobs')
    /\ UNCHANGED <<objectUrls, revoked, speechVars>>

\* the URLs of a list of jobs that have one, in order
OutputUrls(js) ==
    LET held == SelectSeq(js, LAMBDA j : j.outputUrl # NoUrl)
    IN  [i \in 1..Len(held) |-> held[i].outputUrl]

\* removeJob: jobs.find(j => j.id === jobId) in the list of the render, and
\* the URLs it passes to URL.revokeObjectURL
removeJobRevokes(id) ==
    OutputUrls(SelectSeq(renderedJobs, LAMBDA j : j.id = id))

\* removeJob(jobId), for a job that is listed or was listed before:
\* releases the URL found in the render's list, filters the latest list
RemoveJob(id) ==
    /\ id \in 1..Len(runs)
    /\ revoked' = revoked \o removeJobRevokes(id)
    /\ jobs' = SelectSeq(jobs, LAMBDA j : j.id # id)
    /\ jobStep' = JobStep("remove", id)
    /\ renderedJobs' = Rendered(jobs')
    /\ UNCHANGED <<runs, objectUrls, speechVars>>

\* clearJobs: releases every output URL of the render's list and empties
\* the list
ClearJobs ==
    /\ jobs # <<>>
    /\ revoked' = revoked \o OutputUrls(renderedJobs)
    /\ jobs' = <<>>
    /\ jobStep' = JobStep("clear", 0)
    /\ renderedJobs' = Rendered(jobs')
    /\ UNCHANGED <<runs, objectUrls, speechVars>>

\* React renders the component after updates made outside an event handler
\* (the callbacks and continuations of a conversion)
Render ==
    /\ renderedJobs # Rendered(jobs)
    /\ renderedJobs' = Rendered(jobs)
    /\ jobStep' = JobStep("render", 0)
    /\ UNCHANGED <<jobs, runs, objectUrls, revoked, speechVars>>

\* the progress callback handed to convertFileEnhanced
onProgress(id, progress) ==
    jobs' = MapJob(id, [progress |-> progress])

\* handleFilesDrop: the job becomes 'processing' and the conversion starts
StartProcessing(id) ==
    /\ id \in 1..Len(runs)
    /\ runs[id].pc = "dropped"
    /\ jobs' = MapJob(id, SetProcessing)
    /\ runs' = [runs EXCEPT ![id].pc = "enhanced"]
    /\ jobStep' = JobStep("start", id)
    /\ renderedJobs' = Rendered(jobs')
    /\ UNCHANGED <<objectUrls, revoked, speechVars>>

Supported(run) == run.file.ext \in {"epub", "azw3"}

\* the next progress report of a conversion that goes on without failure:
\* the value reported and the position after it
NextReport(run) ==
    CASE run.pc = "enhanced" -> [progress |-> Percent(2), pc |-> "validated", done |-> 0]
      [] run.pc = "validated" ->
            [progress |-> Percent(5),
             pc |-> IF run.file.ext = "epub" THEN "adv10" ELSE "azw25", done |-> 0]
      [] run.pc = "adv10" -> [progress |-> Percent(10), pc |-> "adv20", done |-> 0]
      [] run.pc = "adv20" -> [progress |-> Percent(20), pc |-> "adv30", done |-> 0]
      [] run.pc = "adv30" -> [progress |-> Percent(30), pc |-> "advItems", done |-> 0]
      [] run.pc = "advItems" ->
            IF run.done < run.file.items
            THEN [progress |-> ItemProgress(30, 60, run.done, run.file.items),
                  pc |-> "advItems", done |-> run.done + 1]
            ELSE [progress |-> Percent(95), pc |-> "adv100", done |-> run.done]
      [] run.pc = "adv100" -> [progress |-> Percent(100), pc |-> "resolved", done |-> run.done]
      [] run.pc = "sim20" -> [progress |-> Percent(20), pc |-> "sim40", done |-> 0]
      [] run.pc = "sim40" -> [progress |-> Percent(40), pc |-> "simItems", done |-> 0]
      [] run.pc = "simItems" ->
            IF run.done < run.file.items
            THEN [progress |-> ItemProgress(40, 50, run.done, run.file.items),
                  pc |-> "simItems", done |-> run.done + 1]
            ELSE [progress |-> Percent(90), pc |-> "sim100", done |-> run.done]
      [] run.pc = "sim100" -> [progress |-> Percent(100), pc |-> "resolved", done |-> run.done]
      [] run.pc = "azw25" -> [progress |-> Percent(25), pc |-> "azw50", done |-> 0]
      [] run.pc = "azw50" -> [progress |-> Percent(50), pc |-> "azw75", done |-> 0]
      [] run.pc = "azw75" -> [progress |-> Percent(75), pc |-> "azwRejects", done |-> 0]

Reporting(run) ==
    /\ run.pc \in {"enhanced", "validated", "adv10", "adv20", "adv30", "advItems",
                   "adv100", "sim20", "sim40", "simItems", "sim100",
                   "azw25", "azw50", "azw75"}
    /\ run.pc = "validated" => Supported(run)

\* URL.createObjectURL precedes onProgress(100)
CreatesUrl(run) == run.pc \in {"adv100", "sim100"}

\* a conversion reports its next progress value
ReportProgress(id) ==
    /\ id \in 1..Len(runs)
    /\ Reporting(runs[id])
    /\ onProgress(id, NextReport(runs[id]).progress)
    /\ objectUrls' = IF CreatesUrl(runs[id]) THEN objectUrls + 1 ELSE objectUrls
    /\ runs' = [runs EXCEPT ![id].pc = NextReport(runs[id]).pc,
                            ![id].done = NextReport(runs[id]).done,
                            ![id].url = IF CreatesUrl(runs[id])
                                        THEN objectUrls + 1 ELSE runs[id].url]
    /\ jobStep' = JobStep("progress", id)
    /\ UNCHANGED <<revoked, renderedJobs, speechVars>>

\* where convertEpubToPdfAdvanced can reject: the reader fails (before 10),
\* ePub() throws (after 10), book.loaded rejects (after 20), the title page
\* fails (after 30), pdf.output throws (after 95).  Errors of a single
\* spine item are caught inside the loop.
AdvancedCanFail(run) ==
    \/ run.pc \in {"adv10", "adv20", "adv30", "adv100"}
    \/ run.pc = "advItems" /\ run.done = 0

\* convertFileEnhanced catches the failure of the advanced conversion,
\* calls onProgress(10) and starts convertEpubToPdfSimple
FallBack(id) ==
    /\ id \in 1..Len(runs)
    /\ AdvancedCanFail(runs[id])
    /\ onProgress(id, Percent(10))
    /\ runs' = [runs EXCEPT ![id].pc = "sim20", ![id].done = 0]
    /\ jobStep' = JobStep("fallback", id)
    /\ UNCHANGED <<objectUrls, revoked, renderedJobs, speechVars>>

\* a completion that does not store the URL
SetCompletedNoUrl(outputUrl) ==
    [status |-> "completed", progress |-> Percent(100)]

\* the fields set after the await
SetCompleted(outputUrl) ==
    [status |-> "completed", outputUrl |-> outputUrl, progress |-> Percent(100)]

\* the promise of convertFileEnhanced resolved with the URL
CompleteJob(id) ==
    /\ id \in 1..Len(runs)
    /\ runs[id].pc = "resolved"
    /\ jobs' = MapJob(id, SetCompleted(runs[id].url))
    /\ runs' = [runs EXCEPT ![id].pc = "none"]
    /\ jobStep' = JobStep("complete", id)
    /\ UNCHANGED <<objectUrls, revoked, renderedJobs, speechVars>>

\* where convertFileEnhanced rejects: the format check, the simple
\* conversion (reader, ePub(), spine or metadata, a spine item, pdf.output),
\* and the AZW3 conversion, which always rejects
CanFail(run) ==
    \/ run.pc = "validated" /\ ~Supported(run)
    \/ run.pc \in {"sim20", "sim40", "sim100", "azwRejects"}
    \/ run.pc = "simItems" /\ (run.done < run.file.items \/ run.done = 0)

\* the message of the error convertFileEnhanced throws
FailureMessage(run) ==
    CASE run.pc = "validated" -> "Conversion failed: Unsupported input format"
      [] run.pc = "sim20" -> "Conversion failed: Failed to read EPUB file"
      [] run.pc = "azwRejects" -> "Conversion failed: AZW3 files are typically DRM-protected"
      [] OTHER -> "Conversion failed: EPUB library error"

\* a failure that leaves the progress where the conversion stopped
SetFailedKeepsProgress(message) == [status |-> "error", error |-> message]

\* the fields the catch block sets; the converter always throws an Error, so
\* the 'Conversion failed' alternative of the code is never taken
SetFailed(message) ==
    [status |-> "error", error |-> message, progress |-> Percent(0)]

\* the promise of convertFileEnhanced rejected
FailJob(id) ==
    /\ id \in 1..Len(runs)
    /\ CanFail(runs[id])
    /\ jobs' = MapJob(id, SetFailed(FailureMessage(runs[id])))
    /\ runs' = [runs EXCEPT ![id].pc = "none"]
    /\ jobStep' = JobStep("fail", id)
    /\ UNCHANGED <<objectUrls, revoked, renderedJobs, speechVars>>

InitConverter ==
    /\ Init
    /\ hasSpeech

NextConverter ==
    \/ \E file \in Files : FileDrop(file)
    \/ \E id \in 1..MaxJobs :
          \/ StartProcessing(id)
          \/ ReportProgress(id)
          \/ FallBack(id)
          \/ CompleteJob(id)
          \/ FailJob(id)
          \/ RetryJob(id)
          \/ RemoveJob(id)
    \/ ClearJobs
    \/ Render

SpecConverter == InitConverter /\ [][NextConverter]_vars

\* the speech hook before it is mounted, in a browser with speech synthesis
\* one file of each kind
ConcurrentFiles ==
    {[ext |-> "epub", items |-> 1], [ext |-> "azw3", items |-> 0],
     [ext |-> "txt", items |-> 0]}

\* two files have been dropped one after the other: handleFilesDrop has
\* been called twice and each call has made its first setJobs
InitConcurrent ==
    /\ InitSpeechIdle
    /\ InitPagerIdle
    /\ InitPlayerIdle
    /\ \E file1, file2 \in ConcurrentFiles :
          /\ jobs = <<NewJob(1, file1), NewJob(2, file2)>>
          /\ runs = <<RunAt(IF Supported(RunAt("none", file1))
                            THEN "dropped" ELSE "none", file1),
                      RunAt(IF Supported(RunAt("none", file2))
                            THEN "dropped" ELSE "none", file2)>>
    /\ objectUrls = 0
    /\ revoked = <<>>
    /\ renderedJobs = Rendered(jobs)
    /\ jobStep = [op |-> "drop", id |-> 2]

\* the two conversions and the user's retry and remove, interleaved
NextConcurrent ==
    \/ \E id \in 1..Len(runs) :
          \/ StartProcessing(id)
          \/ ReportProgress(id)
          \/ FallBack(id)
          \/ CompleteJob(id)
          \/ FailJob(id)
          \/ RetryJob(id)
          \/ RemoveJob(id)
    \/ Render

SpecConcurrent == InitConcurrent /\ [][NextConcurrent]_vars

---------------------------------------------------------------------------
(* Properties *)

DeliveredEvent == last.op = "event"

PlaybackView(s) ==
    <<s.isPlaying, s.isPaused, s.currentWordIndex, s.currentText>>

Idle == ~isPlaying /\ ~isPaused

\* the text the handlers of the last delivered event close over
EventText == utterances[last.ev.u].text

\* C1: generation isolation.  An event of an utterance that a later speak()
\* has superseded, delivered after that speak(), changes neither the
\* playback state nor the word cursor nor the current text.
C1_GenerationIsolation ==
    (DeliveredEvent /\ last.ev.u < Len(utterances))
        => PlaybackView(HookState) = PlaybackView(last.pre)

\* C2: cancellation by stop().  An event delivered after stop() and before
\* the next speak() is ignored: the state is Idle and the cursor cleared.
C2_StopInvalidatesEvents ==
    (DeliveredEvent /\ stopped) => (Idle /\ currentWordIndex = 0)

\* C3: a word-boundary event whose offset lies beyond the end of the text
\* selects no word and leaves the previous word cursor unchanged.
C3_OutOfRangeKeepsCursor ==
    (/\ DeliveredEvent
     /\ last.ev.name = "boundary"
     /\ last.ev.unit = "word"
     /\ last.ev.charIndex > Len(EventText))
        => currentWordIndex = last.pre.currentWordIndex


\* where the pieces of text.split(/\s+/) lie in the text: piece k occupies
\* the offsets start..end-1 (0-based, end exclusive); an empty piece has
\* start = end
RECURSIVE SpanScan(_, _, _, _, _)
SpanScan(text, i, acc, start, prevWs) ==
    IF i > Len(text) THEN Append(acc, [start |-> start, end |-> Len(text)])
    ELSE IF text[i] \in Whitespace
         THEN IF prevWs THEN SpanScan(text, i + 1, acc, i, TRUE)
              ELSE SpanScan(text, i + 1,
                            Append(acc, [start |-> start, end |-> i - 1]), i, TRUE)
         ELSE SpanScan(text, i + 1, acc, start, FALSE)

WordSpans(text) == SpanScan(text, 1, <<>>, 0, FALSE)

\* the word at span contains offset o, or is the word before o with nothing
\* but whitespace between its end and o
SpanCovers(text, span, o) ==
    /\ span.start < span.end
    /\ \/ span.start <= o /\ o < span.end
       \/ /\ span.end <= o
          /\ \A k \in (span.end + 1)..o : text[k] \in Whitespace

\* C4: for every text and every word-boundary offset o with
\* 0 <= o <= length(text), the word index the boundary handler stores
\* denotes a word of the text whose span contains o or immediately
\* precedes o.
C4_WordIndexCoversOffset ==
    (/\ DeliveredEvent
     /\ last.ev.name = "boundary"
     /\ last.ev.unit = "word"
     /\ last.ev.charIndex <= Len(EventText))
        => /\ currentWordIndex + 1 <= Len(WordSpans(EventText))
           /\ SpanCovers(EventText, WordSpans(EventText)[currentWordIndex + 1],
                         last.ev.charIndex)

\* the texts the tracker's running offset is right for: words separated by
\* single whitespace characters, no leading or trailing whitespace
SingleSpaced(text) ==
    /\ text # <<>>
    /\ text[1] \notin Whitespace
    /\ text[Len(text)] \notin Whitespace
    /\ \A k \in 1..(Len(text) - 1) :
          ~(text[k] \in Whitespace /\ text[k + 1] \in Whitespace)

\* the statement of C4 restricted to single-spaced texts
WordIndexCoversOffsetSingleSpaced ==
    (DeliveredEvent /\ SingleSpaced(EventText)) => C4_WordIndexCoversOffset

\* C5: stop() always results in Idle with the cursor cleared, whatever the
\* prior state, and a stop() called in a state that stop() produces leaves
\* that state unchanged.
C5_StopForcesIdle ==
    (last.op \in {"stop", "stop-noop"})
        => /\ Idle
           /\ currentWordIndex = 0
           /\ (last.pre = stopState(last.pre) => HookState = last.pre)

\* stop() has acted on a paused utterance whose cursor had advanced
C5_Witness ==
    /\ last.op = "stop"
    /\ last.pre.isPlaying
    /\ last.pre.isPaused
    /\ last.pre.currentWordIndex > 0

\* C6: the playback state is one of Idle, Playing, Paused: isPaused without
\* isPlaying is never reached.
C6_PlaybackStateValid == ~(isPaused /\ ~isPlaying)

\* the event belongs to the utterance the hook holds as current
OfCurrentUtterance == last.ev.u = last.pre.currentUtterance

\* C7: when onEnd of the current utterance is delivered, the state becomes
\* Idle, the cursor is cleared and the submitted text is cleared.
C7_EndClearsText ==
    (DeliveredEvent /\ last.ev.name = "end" /\ OfCurrentUtterance)
        => (Idle /\ currentWordIndex = 0 /\ currentText = <<>>)

\* C7 as amended: when onEnd of the current utterance is delivered, the
\* state becomes Idle, the cursor is cleared and the stored utterance
\* (currentUtterance) is cleared; currentText keeps the submitted text.
C7_EndClearsUtterance ==
    (DeliveredEvent /\ last.ev.name = "end" /\ OfCurrentUtterance)
        => /\ Idle
           /\ currentWordIndex = 0
           /\ currentUtterance = Null
           /\ currentText = last.pre.currentText
           /\ currentText = EventText

\* onEnd of the current utterance was delivered while it was playing with
\* the cursor past the first word
C7_Witness ==
    /\ DeliveredEvent
    /\ last.ev.name = "end"
    /\ OfCurrentUtterance
    /\ last.pre.isPlaying
    /\ last.pre.currentWordIndex > 0

\* C8: when the engine reports an Interrupted error, the playback state
\* returns to Idle as if playback had been stopped normally.
C8_InterruptedReturnsIdle ==
    (DeliveredEvent /\ last.ev.name = "error" /\ last.ev.error = "interrupted")
        => Idle

ResetView(s) ==
    <<s.isPlaying, s.isPaused, s.currentWordIndex, s.currentUtterance>>

\* C9: an engine error of a kind other than Interrupted leaves the same
\* playback state, cursor and stored utterance as onEnd would from the same
\* prior state.
C9_ErrorOtherSameAsEnd ==
    (DeliveredEvent /\ last.ev.name = "error" /\ last.ev.error # "interrupted")
        => /\ ResetView(HookState) = ResetView(onend(last.pre))
           /\ Idle

\* an error other than Interrupted was delivered for the current utterance
\* while it was playing with the cursor past the first word
C9_Witness ==
    /\ DeliveredEvent
    /\ last.ev.name = "error"
    /\ last.ev.error = "synthesis-failed"
    /\ OfCurrentUtterance
    /\ last.pre.isPlaying
    /\ last.pre.currentWordIndex > 0

\* C10: the platform never holds two utterances of the hook: a successful
\* speak() leaves exactly the new utterance in the platform's queue, every
\* earlier one having been cancelled.
C10_AtMostOneActive ==
    /\ Len(synthQueue) <= 1
    /\ last.op = "speak" =>
          /\ synthQueue = <<Len(utterances)>>
          /\ \A u \in 1..(Len(utterances) - 1) : utterances[u].phase = "gone"

\* a second speak() has cancelled the first utterance while it was being
\* spoken
C10_Witness ==
    /\ last.op = "speak"
    /\ Len(utterances) >= 2
    /\ \E i \in 1..Len(inflight) :
          /\ inflight[i].u = Len(utterances) - 1
          /\ inflight[i].error = "interrupted"


\* C11: speak() called when the platform lacks speech capability or with
\* empty text fails silently: playback state, cursor, current text and the
\* stored utterance are left unchanged, no utterance is created, and nothing
\* is submitted to or cancelled on the platform engine.
\* A speak() step is stamped "speak" when it passed the guard and
\* "speak-rejected" when it did not: a call without speech capability or
\* with '' is never accepted, and a rejected call changes nothing.
C11_RejectedSpeakIsSilent ==
    [][/\ last'.op = "speak" => (isSupported /\ currentText' # <<>>)
       /\ last'.op = "speak-rejected" =>
             UNCHANGED <<hookVars, utterances, platformVars>>]_vars

\* speak('') was rejected while an utterance was playing
C11_Witness ==
    /\ last.op = "speak-rejected"
    /\ isSupported
    /\ isInitialized
    /\ isPlaying
    /\ synthQueue # <<>>


\* C12: a successful speak(text) resets cursor and state and returns
\* without waiting.  Immediately after it, while no event of the new
\* utterance has been emitted, the state is Idle, the word index is 0 and
\* the current text is text; isPlaying turns true only in the step that
\* delivers an onStart event.
C12_SpeakResetsThenStartPlays ==
    /\ last.op = "speak" =>
          /\ Idle
          /\ currentWordIndex = 0
          /\ currentText = utterances[Len(utterances)].text
          /\ currentUtterance = Len(utterances)
          /\ utterances[Len(utterances)].phase = "queued"
          /\ \A i \in 1..Len(inflight) : inflight[i].u # Len(utterances)
    /\ (isPlaying /\ ~last.pre.isPlaying) =>
          (DeliveredEvent /\ last.ev.name = "start")

\* speak() has replaced an utterance that was playing with the cursor past
\* the first word
C12_Witness ==
    /\ last.op = "speak"
    /\ last.pre.isPlaying
    /\ last.pre.currentWordIndex > 0
    /\ currentText # last.pre.currentText


Playing == isPlaying /\ ~isPaused

Paused == isPlaying /\ isPaused

C14_ResumeOnlyFromPaused ==
    /\ last.op = "resume" =>
          /\ last.pre.isPlaying /\ last.pre.isPaused
          /\ Playing
    /\ last.op = "resume-noop" => HookState = last.pre


\* C15: pause() followed by resume() from Playing returns to Playing with
\* the word cursor it had before pause(); neither command nor the delivery
\* of an onPause or onResume event modifies the cursor.
C15_PauseResumeKeepsCursor ==
    [][/\ (last'.op \in {"resume", "resume-noop"} /\ last.op = "pause") =>
             /\ Playing'
             /\ currentWordIndex' = last.pre.currentWordIndex
       /\ last'.op \in {"pause", "pause-noop", "resume", "resume-noop"} =>
             currentWordIndex' = currentWordIndex
       /\ (last'.op = "event" /\ last'.ev.name \in {"pause", "resume"}) =>
             currentWordIndex' = currentWordIndex]_vars

\* resume() has returned a paused utterance to Playing with the cursor past
\* the first word, and the engine has emitted the utterance's onResume
C15_Witness ==
    /\ last.op = "resume"
    /\ last.pre.isPlaying
    /\ last.pre.isPaused
    /\ Playing
    /\ currentWordIndex > 0
    /\ \E i \in 1..Len(inflight) : inflight[i].name = "resume"


ClampTo(lo, hi, x) == IF x < lo THEN lo ELSE IF x > hi THEN hi ELSE x

\* C16: for every rate, pitch and volume passed to speak(), the value given
\* to the utterance is the input clamped to its range (rate to [0.1, 10],
\* pitch to [0, 2], volume to [0, 1]); an in-range input, pitch 0 and
\* volume 0 included, is used unchanged.
C16_OptionsClamped ==
    \A u \in 1..Len(utterances) :
        /\ utterances[u].rate = ClampTo(RateMin, RateMax, utterances[u].options.rate)
        /\ utterances[u].pitch = ClampTo(PitchMin, PitchMax, utterances[u].options.pitch)
        /\ utterances[u].volume = ClampTo(VolumeMin, VolumeMax, utterances[u].options.volume)

\* the statement of C16 for the inputs other than 0
OptionsClampedUnlessZero ==
    \A u \in 1..Len(utterances) :
        LET o == utterances[u].options
        IN  /\ o.rate # 0 => utterances[u].rate = ClampTo(RateMin, RateMax, o.rate)
            /\ o.pitch # 0 => utterances[u].pitch = ClampTo(PitchMin, PitchMax, o.pitch)
            /\ o.volume # 0 => utterances[u].volume = ClampTo(VolumeMin, VolumeMax, o.volume)


\* C17: the reading-position highlight is applied to the displayed text
\* slice only when that slice is the text currently being read; when the
\* displayed slice differs from the spoken text no highlight is produced.
C17_HighlightOnlyOnSpokenSlice ==
    HighlightApplied => currentText = DisplayedContent

\* C18: whenever a reading highlight exists, it is well formed with respect
\* to the spoken text: 0 <= charStart < charEnd <= length(text), for every
\* spoken text and every word index the tracker reports.
C18_HighlightWellFormed ==
    readingHighlight # NoHighlight =>
        /\ 0 <= readingHighlight.start
        /\ readingHighlight.start < readingHighlight.end
        /\ readingHighlight.end <= Len(currentText)

\* the statement of C18 with charStart <= charEnd in place of
\* charStart < charEnd
HighlightWithinText ==
    readingHighlight # NoHighlight =>
        /\ 0 <= readingHighlight.start
        /\ readingHighlight.start <= readingHighlight.end
        /\ readingHighlight.end <= Len(currentText)


StatusEdges ==
    {<<"pending", "processing">>, <<"processing", "completed">>,
     <<"processing", "error">>, <<"error", "processing">>}

\* the status of job id changes along an edge of StatusEdges, or not at all
StatusStepAllowed(id) ==
    (HasJob(id) /\ HasJob(id)') =>
        \/ JobOf(jobs', id).status = JobOf(jobs, id).status
        \/ <<JobOf(jobs, id).status, JobOf(jobs', id).status>> \in StatusEdges

Created(id) == ~HasJob(id) /\ HasJob(id)'

\* C19: every conversion job is created in status Pending and its status
\* only ever changes along Pending -> Processing, Processing -> Completed,
\* Processing -> Error and (on retry) Error -> Processing; no job is created
\* in or jumps to any other status.
C19_JobStatusMachine ==
    [][\A id \in 1..MaxJobs :
          /\ Created(id) => JobOf(jobs', id).status = "pending"
          /\ StatusStepAllowed(id)]_vars

\* C19 as amended: a job for an EPUB or AZW3 file is created in status
\* Pending, a job for a file of any other type is created in status Error
\* with its error message set; the status of every job only ever changes
\* along Pending -> Processing, Processing -> Completed, Processing -> Error
\* and (on retry) Error -> Processing.
C19_JobStatusMachineUnsupportedInError ==
    [][\A id \in 1..MaxJobs :
          /\ Created(id) =>
                IF JobOf(jobs', id).inputFormat \in {"epub", "azw3"}
                THEN JobOf(jobs', id).status = "pending"
                ELSE /\ JobOf(jobs', id).status = "error"
                     /\ JobOf(jobs', id).error # NoError
          /\ StatusStepAllowed(id)]_vars

\* a job created in status Error for an unsupported file has been retried
\* and is processing
C19_Witness ==
    /\ jobStep.op = "retry"
    /\ HasJob(jobStep.id)
    /\ JobOf(jobs, jobStep.id).inputFormat = "txt"
    /\ JobOf(jobs, jobStep.id).status = "processing"

BothProcessing(id) ==
    /\ HasJob(id)
    /\ HasJob(id)'
    /\ JobOf(jobs, id).status = "processing"
    /\ JobOf(jobs', id).status = "processing"

\* C20: while a job's status is Processing its progress never decreases:
\* each value stored by a progress callback is greater than or equal to
\* the value stored before it, on every converter path (advanced EPUB,
\* fallback to simple EPUB, AZW3).
C20_ProgressMonotone ==
    [][\A id \in 1..MaxJobs :
          BothProcessing(id) =>
              AtMost(JobOf(jobs, id).progress, JobOf(jobs', id).progress)]_vars

\* C20 as amended: while a job's status is Processing its progress never
\* decreases, except in the one step where the advanced EPUB conversion has
\* failed and the fallback to the simple conversion sets the progress back
\* to 10.
C20_ProgressMonotoneExceptFallback ==
    [][\A id \in 1..MaxJobs :
          BothProcessing(id) =>
              \/ AtMost(JobOf(jobs, id).progress, JobOf(jobs', id).progress)
              \/ /\ jobStep'.op = "fallback"
                 /\ jobStep'.id = id
                 /\ JobOf(jobs', id).progress = Percent(10)]_vars

\* a conversion that fell back to the simple path after the advanced one
\* had reported more than 10 has gone on to report 90
C20_Witness ==
    \E id \in 1..Len(runs) :
        /\ runs[id].pc = "sim100"
        /\ runs[id].file.items > 1
        /\ HasJob(id)
        /\ JobOf(jobs, id).status = "processing"
        /\ JobOf(jobs, id).progress = Percent(90)

---------------------------------------------------------------------------
(* C21..C23: how a conversion ends, and the retry.                        *)

JobIds == 1..MaxJobs

\* C21: when the conversion of a job fails, the job that is still listed
\* ends with status 'error', progress 0 and the message the converter threw;
\* and in every state a job with status 'error' has progress 0 and an error
\* message.
C21_FailureStored ==
    [][/\ \A id \in JobIds :
            (jobStep'.op = "fail" /\ jobStep'.id = id /\ HasJob(id)) =>
                /\ JobOf(jobs', id).status = "error"
                /\ JobOf(jobs', id).progress = Percent(0)
                /\ JobOf(jobs', id).error = FailureMessage(runs[id])
       /\ \A i \in 1..Len(jobs') :
            jobs'[i].status = "error" =>
                jobs'[i].progress = Percent(0) /\ jobs'[i].error # NoError]_vars

\* a conversion failed after it had reported progress
C21_Witness ==
    /\ jobStep.op = "fail"
    /\ HasJob(jobStep.id)
    /\ JobOf(jobs, jobStep.id).status = "error"
    /\ JobOf(jobs, jobStep.id).error = "Conversion failed: AZW3 files are typically DRM-protected"

\* C22: when the conversion of a job succeeds, the job that is still listed
\* ends with status 'completed', progress 100 and the output URL the
\* converter returned; and in every state a job with status 'completed' has
\* progress 100 and an output URL.
C22_SuccessStored ==
    [][/\ \A id \in JobIds :
            (jobStep'.op = "complete" /\ jobStep'.id = id /\ HasJob(id)) =>
                /\ JobOf(jobs', id).status = "completed"
                /\ JobOf(jobs', id).progress = Percent(100)
                /\ JobOf(jobs', id).outputUrl = runs[id].url
       /\ \A i \in 1..Len(jobs') :
            jobs'[i].status = "completed" =>
                jobs'[i].progress = Percent(100) /\ jobs'[i].outputUrl # NoUrl]_vars

C22_Witness ==
    /\ jobStep.op = "complete"
    /\ HasJob(jobStep.id)
    /\ JobOf(jobs, jobStep.id).status = "completed"
    /\ JobOf(jobs, jobStep.id).outputUrl # NoUrl

\* the job and the conversion right after the first setJobs of a first run
FirstRunStarted(id, file) ==
    /\ JobOf(jobs', id) = Spread(NewJob(id, file), SetProcessing)
    /\ runs'[id].pc = "enhanced"
    /\ runs'[id].done = 0
    /\ runs'[id].url = NoUrl

\* C23: retryJob acts on a job with status 'error' and leaves it with status
\* 'processing', progress 0 and no error message; for a supported file the
\* job and its conversion are then exactly where a first run starts; and a
\* retried job leaves 'processing' only for 'completed' or 'error'.
C23_RetryRestarts ==
    [][\A id \in JobIds :
        /\ (jobStep'.op = "retry" /\ jobStep'.id = id) =>
                /\ JobOf(jobs, id).status = "error"
                /\ JobOf(jobs', id).status = "processing"
                /\ JobOf(jobs', id).progress = Percent(0)
                /\ JobOf(jobs', id).error = NoError
                /\ Supported(runs'[id]) =>
                        FirstRunStarted(id, JobOf(jobs, id).inputFile)
        /\ (/\ id \in 1..Len(runs)
            /\ runs[id].retried
            /\ HasJob(id) /\ HasJob(id)'
            /\ JobOf(jobs, id).status = "processing"
            /\ JobOf(jobs', id).status # "processing") =>
                JobOf(jobs', id).status \in {"completed", "error"}]_vars

\* a retried job completed
C23_Witness ==
    /\ jobStep.op = "complete"
    /\ HasJob(jobStep.id)
    /\ runs[jobStep.id].retried
    /\ JobOf(jobs, jobStep.id).status = "completed"

---------------------------------------------------------------------------
(* C24: concurrent jobs.                                                  *)

JobSteps == {"start", "progress", "fallback", "complete", "fail", "retry", "remove"}

\* C24: a step of one job (its start, a progress callback, the fallback, its
\* completion, failure, retry or removal) leaves every other job in the
\* list, with the same id, file, status, progress, error and output URL.
C24_JobsIndependent ==
    [][\A id, other \in 1..Len(runs) :
        (/\ jobStep'.op \in JobSteps
         /\ jobStep'.id = id
         /\ other # id
         /\ HasJob(other)) =>
            /\ HasJob(other)'
            /\ JobOf(jobs', other) = JobOf(jobs, other)]_vars

\* one job failed while the other was Processing with progress reported
C24_Witness ==
    \E id, other \in 1..Len(runs) :
        /\ other # id
        /\ jobStep = JobStep("fail", id)
        /\ HasJob(id) /\ HasJob(other)
        /\ JobOf(jobs, id).status = "error"
        /\ JobOf(jobs, other).status = "processing"
        /\ JobOf(jobs, other).progress = Percent(20)

---------------------------------------------------------------------------
(* C27: the progress values.                                              *)

IsIntegerPercent(p) == p.den = 1 /\ p.num >= 0 /\ p.num <= 100

\* C27: the progress of every listed job is an integer between 0 and 100.
C27_ProgressIntegerPercent ==
    \A i \in 1..Len(jobs) : IsIntegerPercent(jobs[i].progress)

---------------------------------------------------------------------------
(* C25, C26: the object URLs of the conversion outputs.                   *)

\* the number of times URL.revokeObjectURL was called with url
Releases(log, url) == Cardinality({i \in 1..Len(log) : log[i] = url})

\* C25: an object URL that a conversion created for a job that is no longer
\* in the list has been released.
C25_UrlReleasedWithItsJob ==
    \A id \in 1..Len(runs) :
        (runs[id].url # NoUrl /\ ~HasJob(id)) => Releases(revoked, runs[id].url) = 1

\* C26: no URL is released twice; removeJob for a job that holds an output
\* URL leaves that URL released exactly once; removeJob for a job that is no
\* longer listed releases nothing.
C26_RemoveReleasesOnce ==
    [][/\ \A url \in 1..objectUrls' : Releases(revoked', url) <= 1
       /\ \A id \in 1..Len(runs) :
            (jobStep'.op = "remove" /\ jobStep'.id = id) =>
                IF HasJob(id)
                THEN JobOf(jobs, id).outputUrl # NoUrl =>
                        Releases(revoked', JobOf(jobs, id).outputUrl) = 1
                ELSE revoked' = revoked]_vars

---------------------------------------------------------------------------
(* C28: the viewer's highlight against the hook's words.                  *)

\* C28: after a word boundary has been handled, the range the viewer
\* highlights is the span of the word of the hook's word sequence (the text
\* split on runs of whitespace) at the index the hook reports.
C28_HighlightIsHookWord ==
    (/\ DeliveredEvent
     /\ last.ev.name = "boundary"
     /\ last.ev.unit = "word"
     /\ isPlaying
     /\ currentText # <<>>)
        => /\ currentWordIndex + 1 <= Len(WordSpans(currentText))
           /\ readingHighlight.start = WordSpans(currentText)[currentWordIndex + 1].start
           /\ readingHighlight.end = WordSpans(currentText)[currentWordIndex + 1].end

---------------------------------------------------------------------------
(* C29: the current page.                                                 *)

\* C29: the current page is a page of the document,
\* 1 <= currentPage <= totalPages.
C29_PageInRange ==
    1 <= currentPage /\ currentPage <= totalPages

---------------------------------------------------------------------------
(* C30: the current track.                                                *)

\* C30: currentTrack is null exactly when the track list is empty, and
\* otherwise it is one of the tracks of the list.
C30_CurrentTrackListed ==
    /\ music.currentTrack = NoTrack <=> music.tracks = <<>>
    /\ music.tracks # <<>> => music.currentTrack \in Listed(music.tracks)

\* the current track was removed while another track, loaded since the
\* last render, was in the list
C30_Witness ==
    /\ playerStep.op = "remove"
    /\ playerStep.stale
    /\ music.tracks # <<>>
    /\ music.currentTrack # playerStep.id
    /\ music.currentTrack = music.tracks[1]

=============================================================================
